---- MODULE Spec2Model ----
(***************************************************************************)
(* TAP-Net (src/tapnet_model.py): the heatmap decoder                      *)
(* (soft_argmax_heatmap, heatmaps_to_points), the cost-volume correlator   *)
(* (TAPNet.tracks_from_cost_volume) and the forward pass                   *)
(* (TAPNet.__call__) with its query-chunk loop.                            *)
(*                                                                         *)
(* Numbers.  A heatmap weight is a pair <<a, b>> standing for the real     *)
(* a + b * tiny, where tiny = 1e-12 / EpsUnits, so that the floor 1e-12 of *)
(* the code is the pair <<0, EpsUnits>> and weights below the floor exist. *)
(* All |b| in the model stay far below 1/tiny, so comparing pairs          *)
(* lexicographically is comparing the reals.  A quotient is kept as        *)
(* <<numerator, denominator>> of such pairs, never rounded.                *)
(* The batch axis is fixed to one element and dropped.                     *)
(***************************************************************************)
EXTENDS Integers, Sequences, FiniteSets, TLC

\* ---------------------------------------------------------------- bounds
\* heatmap / feature-grid rows and columns
MaxH == 2
MaxW == 2
\* soft-argmax radii 0..MaxThreshold are explored
MaxThreshold == 2
\* resolution below the 1e-12 floor (see above)
EpsUnits == 2
\* frames of the video
NumFrames == 2
\* heatmaps_to_points: at most this many query points
MaxPoints == 2
\* a query's frame coordinate is a multiple of 1/FrameDen
FrameDen == 2

\* ------------------------------------------------------ program constants
\* threshold=5, the default radius
DefaultThreshold == 5
\* feature_grid_stride=8
FeatureGridStride == 8

\* ------------------------------------------------------- exact arithmetic
PZero == <<0, 0>>
POne == <<1, 0>>
PTiny == <<0, 1>>
\* 1e-12, the floor of src/tapnet_model.py:84
Eps == <<0, EpsUnits>>

PAdd(p, q) == <<p[1] + q[1], p[2] + q[2]>>
PScale(k, p) == <<k * p[1], k * p[2]>>
PLess(p, q) == p[1] < q[1] \/ (p[1] = q[1] /\ p[2] < q[2])

\* F applied to the value of e, which is computed once
Force(F(_), e) == CHOOSE r \in {F(v) : v \in {e}} : TRUE

\* jnp.maximum
PMaximum(p, q) == IF PLess(p, q) THEN q ELSE p

\* jnp.square on integers
Square(k) == k * k

\* a quotient n/d equals the integer k
FEqInt(f, k) == f[1] = PScale(k, f[2])

\* ----------------------------------------------------------- heatmaps
\* A heatmap is [val |-> [0..H-1 -> [0..W-1 -> pair]], scale |-> Z]: the
\* weight of cell (r, c) is val[r][c] / Z.  Z is 1 for a heatmap given
\* directly and the softmax normaliser for one produced by the correlator.
Height(hm) == Cardinality(DOMAIN hm.val)
Width(hm) == Cardinality(DOMAIN hm.val[0])

\* jnp.reshape(softmax_val, -1)[i]: row-major
FlatVal(hm, i) == hm.val[i \div Width(hm)][i % Width(hm)]

\* coords = jnp.stack([x, y], axis=-1); reshape(coords, [-1, 2])[i]
CoordsSwapped(hm, i) == <<i \div Width(hm), i % Width(hm)>>
Coords(hm, i) == <<i % Width(hm), i \div Width(hm)>>

\* jnp.argmax of the flattened heatmap: the first index holding the maximum
ArgmaxPos(hm) ==
  LET n == Height(hm) * Width(hm)
  IN CHOOSE i \in 0..(n - 1) :
       /\ \A j \in 0..(n - 1) : ~PLess(FlatVal(hm, i), FlatVal(hm, j))
       /\ \A j \in 0..(i - 1) : PLess(FlatVal(hm, j), FlatVal(hm, i))

SqDist(p, q) == Square(p[1] - q[1]) + Square(p[2] - q[2])

\* valid = sum(square(coords - pos)) < square(threshold), at one cell
ValidInclusive(coord, pos, threshold) ==
  SqDist(coord, pos) <= Square(threshold)
Valid(coord, pos, threshold) ==
  SqDist(coord, pos) < Square(threshold)

\* the array valid, flattened, with pos the coordinates of the argmax cell
ValidMask(hm, threshold) ==
  Force(LAMBDA pos :
          [i \in 0..(Height(hm) * Width(hm) - 1) |->
             Valid(Coords(hm, i), pos, threshold)],
        Coords(hm, ArgmaxPos(hm)))

\* jnp.sum(coords * valid * softmax_val[:, :, newaxis], axis=(0, 1))[k]
RECURSIVE WeightedSumUpTo(_, _, _, _)
WeightedSumUpTo(hm, valid, k, n) ==
  IF n = 0 THEN PZero
  ELSE LET i == n - 1
           w == IF valid[i]
                  THEN PScale(Coords(hm, i)[k], FlatVal(hm, i))
                  ELSE PZero
       IN PAdd(WeightedSumUpTo(hm, valid, k, i), w)

WeightedSum(hm, valid) ==
  LET n == Height(hm) * Width(hm)
  IN <<WeightedSumUpTo(hm, valid, 1, n), WeightedSumUpTo(hm, valid, 2, n)>>

\* jnp.sum(valid * softmax_val[:, :, newaxis], axis=(0, 1))
RECURSIVE ValidSumUpTo(_, _, _)
ValidSumUpTo(hm, valid, n) ==
  IF n = 0 THEN PZero
  ELSE LET i == n - 1
       IN PAdd(ValidSumUpTo(hm, valid, i),
               IF valid[i] THEN FlatVal(hm, i) ELSE PZero)

\* sum_of_weights = jnp.maximum(sum, 1e-12), in units of 1/scale
SumOfWeightsNoFloor(hm, valid) ==
  ValidSumUpTo(hm, valid, Height(hm) * Width(hm))
SumOfWeights(hm, valid) ==
  PMaximum(ValidSumUpTo(hm, valid, Height(hm) * Width(hm)),
           PScale(hm.scale, Eps))

\* soft_argmax_heatmap: the point [x, y], each a quotient
SoftArgmaxOn(hm, valid) ==
  Force(LAMBDA ws :
          Force(LAMBDA sw : <<<<ws[1], sw>>, <<ws[2], sw>>>>,
                SumOfWeights(hm, valid)),
        WeightedSum(hm, valid))

soft_argmax_heatmap(softmax_val, threshold) ==
  Force(LAMBDA valid : SoftArgmaxOn(softmax_val, valid),
        ValidMask(softmax_val, threshold))

\* ------------------------------------------------------ heatmaps_to_points
\* transforms.convert_grid_coordinates on one coordinate kept as a quotient:
\* coords * output_grid_size / input_grid_size
ConvertCoord(f, input_size, output_size) ==
  <<PScale(output_size, f[1]), PScale(input_size, f[2])>>

\* jnp.round of the quotient num/den (den > 0): to nearest, ties to even
RoundFloor(num, den) == num \div den
Round(num, den) ==
  LET fl == num \div den
      r == num - fl * den
  IN IF 2 * r < den THEN fl
     ELSE IF 2 * r > den THEN fl + 1
     ELSE IF fl % 2 = 0 THEN fl ELSE fl + 1

\* A query point is <<t, y, x>>; t counts 1/FrameDen frames, y and x are
\* integers.  query_frame = convert_grid_coordinates(query_points,
\* image_shape[1:4], feature_grid_shape[1:4], 'tyx')[..., 0:1], rounded
QueryFrame(q, image_t, grid_t) == Round(q[1] * grid_t, FrameDen * image_t)

\* is_query_point = equal(int32(round(query_frame)), arange(image_shape[1]))
IsQueryPoint(q, image_t, grid_t, j) ==
  IF QueryFrame(q, image_t, grid_t) = j THEN 1 ELSE 0

\* query_points[:, :, newaxis, 2:0:-1]: the components 2 and 1, that is (x, y)
QueryXYUnreversed(q) == <<q[2], q[3]>>
QueryXY(q) == <<q[3], q[2]>>

\* out_points * (1.0 - is_query_point) + query * is_query_point
Blend(f, q, m) == <<PAdd(PScale(1 - m, f[1]), PScale(q * m, f[2])), f[2]>>

\* soft argmax of one heatmap, rescaled from the grid (width, height) to
\* the image (width, height)
RescaledPoint(hm, thr, shape) ==
  Force(LAMBDA p : <<ConvertCoord(p[1], Width(hm), shape.w),
                     ConvertCoord(p[2], Height(hm), shape.h)>>,
        soft_argmax_heatmap(hm, thr))

\* heatmaps_to_points for query n and frame j, after the shape assertion
PointOf(hm, thr, shape, grid_t, qp, n, j) ==
  Force(LAMBDA p :
          IF qp.none THEN p
          ELSE LET m == IsQueryPoint(qp.pts[n], shape.t, grid_t, j)
                   xy == QueryXY(qp.pts[n])
               IN <<Blend(p[1], xy[1], m), Blend(p[2], xy[2], m)>>,
        RescaledPoint(hm, thr, shape))

\* qp is [none |-> TRUE] for query_points=None, else [none |-> FALSE,
\* pts |-> the sequence of query points]
HeatmapsToPointsOn(aps, shape, thr, qp) ==
  LET grid_t == Len(aps[1])
  IN IF grid_t # shape.t THEN [error |-> "AssertionError"]
     ELSE [error |-> "",
           points |-> [n \in 1..Len(aps) |-> [j \in 1..grid_t |->
                         PointOf(aps[n][j], thr, shape, grid_t, qp, n, j - 1)]]]

heatmaps_to_points(all_heatmaps, shape, thr, qp) ==
  Force(LAMBDA aps :
          Force(LAMBDA q : HeatmapsToPointsOn(aps, shape, thr, q), qp),
        all_heatmaps)

\* ------------------------------------------- TAPNet.tracks_from_cost_volume
\* Tensors are functions: x[t][n][h][w][c] with frames t and queries n
\* counted from 1 (sequences), rows h and columns w from 0, channels from 1.
\* The learned parameters are fixed integer patterns.
RECURSIVE SumFn(_, _)
SumFn(f, S) ==
  IF S = {} THEN 0
  ELSE LET p == CHOOSE q \in S : TRUE
       IN f[p] + SumFn(f, S \ {p})

CeilDiv(a, b) == (a + b - 1) \div b

\* 'SAME' padding of hk.Conv3D: the padding put before the first element
PadLow(size, k, s) ==
  LET total == (CeilDiv(size, s) - 1) * s + k - size
  IN IF total > 0 THEN total \div 2 ELSE 0

\* The parameter values explored.  hid1: odd output channels add up the
\* heads at the centre tap, even ones subtract the heads of the cell one
\* row up; hid2: the sum of the channels at the centre tap.  They keep the
\* logits, which the softmax exponentiates, small.
W1(dd, dh, dw, i, o) ==
  IF o % 2 = 1 THEN (IF dh = 1 /\ dw = 1 THEN 1 ELSE 0)
  ELSE (IF dh = 0 /\ dw = 1 THEN -1 ELSE 0)
B1(o) == 0
W2(dd, dh, dw, i, o) == IF dh = 1 /\ dw = 1 THEN 1 ELSE 0
B2(o) == 0
W3(dd, dh, dw, i, o) == ((dd + dh + dw + 2 * i + o) % 3) - 1
B3(o) == 1

\* the kernel and the bias of the layer mods[layer]
Weight(layer, dd, dh, dw, i, o) ==
  CASE layer = "hid1" -> W1(dd, dh, dw, i, o)
    [] layer = "hid2" -> W2(dd, dh, dw, i, o)
    [] layer = "hid3" -> W3(dd, dh, dw, i, o)
Bias(layer, o) ==
  CASE layer = "hid1" -> B1(o)
    [] layer = "hid2" -> B2(o)
    [] layer = "hid3" -> B3(o)

\* hk.Conv3D over [N=t, D=n, H=h, W=w, C=c] with kernel_shape
\* [shape.kd, shape.kh, shape.kw], stride [shape.sd, shape.sh, shape.sw],
\* padding 'SAME' and a bias.
\* The sizes of the input and the padding before its first elements:
ConvGeometry(x, shape) ==
  [N |-> Len(x[1]),
   H |-> Cardinality(DOMAIN x[1][1]),
   W |-> Cardinality(DOMAIN x[1][1][0]),
   C |-> Len(x[1][1][0][0]),
   pd |-> PadLow(Len(x[1]), shape.kd, shape.sd),
   ph |-> PadLow(Cardinality(DOMAIN x[1][1]), shape.kh, shape.sh),
   pw |-> PadLow(Cardinality(DOMAIN x[1][1][0]), shape.kw, shape.sw)]

\* the input with its zero padding
ConvAt(x, g, t, n, h, w, c) ==
  IF n \in 1..g.N /\ h \in 0..(g.H - 1) /\ w \in 0..(g.W - 1)
    THEN x[t][n][h][w][c] ELSE 0

\* the sum over the taps (offset dd along D, dh along H, dw along W, and
\* input channel c) of weight * input, for the output element
\* [t][n][h][w][o]: plane by plane along D
ConvTaps(x, g, shape, layer, t, n, h, w, o) ==
  LET K == shape.kh * shape.kw * g.C
      Plane(dd) ==
        LET S[k \in 0..K] ==
              IF k = 0 THEN 0
              ELSE LET j == k - 1
                       c == (j % g.C) + 1
                       dw == (j \div g.C) % shape.kw
                       dh == j \div (g.C * shape.kw)
                   IN Weight(layer, dd, dh, dw, c, o)
                        * ConvAt(x, g, t, (n - 1) * shape.sd - g.pd + dd + 1,
                                 h * shape.sh - g.ph + dh,
                                 w * shape.sw - g.pw + dw, c)
                      + S[j]
        IN S[K]
      D[d \in 0..shape.kd] == IF d = 0 THEN 0 ELSE Plane(d - 1) + D[d - 1]
  IN D[shape.kd]

Conv3DOn(x, shape, out_channels, layer) ==
  Force(LAMBDA g :
          [t \in 1..Len(x) |->
            [n \in 1..CeilDiv(g.N, shape.sd) |->
              [h \in 0..(CeilDiv(g.H, shape.sh) - 1) |->
                [w \in 0..(CeilDiv(g.W, shape.sw) - 1) |->
                  [o \in 1..out_channels |->
                     Bias(layer, o)
                       + ConvTaps(x, g, shape, layer, t, n, h, w, o)]]]]],
        ConvGeometry(x, shape))

Conv3D(input, shape, out_channels, layer) ==
  Force(LAMBDA x : Conv3DOn(x, shape, out_channels, layer), input)

\* widths of the hidden layers (16 and 32 in the code, lines 193 and 207)
Hid1Channels == 2
Hid3Channels == 1
\* num_heads = 4
NumHeads == 4
\* channels of the feature grid per head
ChanPerHead == 1

Kernel133 == [kd |-> 1, kh |-> 3, kw |-> 3, sd |-> 1, sh |-> 1, sw |-> 1]
Kernel333 == [kd |-> 3, kh |-> 3, kw |-> 3, sd |-> 1, sh |-> 1, sw |-> 1]
Kernel133Stride122 ==
  [kd |-> 1, kh |-> 3, kw |-> 3, sd |-> 1, sh |-> 2, sw |-> 2]

\* mods['hid1'] = hk.Conv3D(16, [1, 3, 3], stride=[1, 1, 1]); the variant
\* has a kernel of 3 along the query axis as well
Hid1AcrossQueries(x) == Conv3D(x, Kernel333, Hid1Channels, "hid1")
Hid1(x) == Conv3D(x, Kernel133, Hid1Channels, "hid1")
\* mods['hid2'] = hk.Conv3D(1, [1, 3, 3], stride=[1, 1, 1])
Hid2(x) == Conv3D(x, Kernel133, 1, "hid2")
\* mods['hid3'] = hk.Conv3D(32, [1, 3, 3], stride=[1, 2, 2])
Hid3(x) == Conv3D(x, Kernel133Stride122, Hid3Channels, "hid3")

\* jax.nn.relu, elementwise
Relu(input) ==
  Force(LAMBDA x :
          [t \in DOMAIN x |-> [n \in DOMAIN x[t] |-> [h \in DOMAIN x[t][n] |->
            [w \in DOMAIN x[t][n][h] |-> [c \in DOMAIN x[t][n][h][w] |->
               IF x[t][n][h][w][c] > 0 THEN x[t][n][h][w][c] ELSE 0]]]]],
        input)

\* cost_volume = einsum('bncd,bthwcd->tbnhwd', interp_feature_heads,
\* feature_grid_heads), reshaped to (t, b*n, h, w, d)
CostVolumeOn(interp_feature_heads, feature_grid_heads) ==
  [t \in DOMAIN feature_grid_heads |->
    [n \in DOMAIN interp_feature_heads |->
      [h \in DOMAIN feature_grid_heads[t] |->
        [w \in DOMAIN feature_grid_heads[t][h] |->
          [d \in 1..NumHeads |->
             SumFn([c \in 1..ChanPerHead |->
                      interp_feature_heads[n][c][d]
                        * feature_grid_heads[t][h][w][c][d]],
                   1..ChanPerHead)]]]]]

CostVolume(interp_feature_heads, feature_grid_heads) ==
  Force(LAMBDA a :
          Force(LAMBDA b : CostVolumeOn(a, b), feature_grid_heads),
        interp_feature_heads)

RECURSIVE Pow2(_)
Pow2(k) == IF k <= 0 THEN 1 ELSE 2 * Pow2(k - 1)

\* jax.nn.softmax(pos, axis=(-2, -3)) of one frame and query: one joint
\* softmax over rows and columns.  The exponential is taken to base 2, so
\* that the weights 2^(x - min) / sum stay exact.
MinLogit(x) ==
  LET vals == {x[h][w] : h \in DOMAIN x, w \in DOMAIN x[0]}
  IN CHOOSE v \in vals : \A u \in vals : v <= u

SoftmaxOn(x) ==
  LET cells == {<<h, w>> : h \in DOMAIN x, w \in DOMAIN x[0]}
  IN Force(LAMBDA m :
       Force(LAMBDA e :
               [val |-> [h \in DOMAIN x |-> [w \in DOMAIN x[0] |->
                           <<e[<<h, w>>], 0>>]],
                scale |-> SumFn(e, cells)],
             [p \in cells |-> Pow2(x[p[1]][p[2]] - m)]),
       MinLogit(x))

Softmax(logits) == Force(LAMBDA x : SoftmaxOn(x), logits)

\* pos = softmax(hid2(relu(hid1(cost_volume)))), as 'bnthw'
TrackHeatmaps(hidden) ==
  Force(LAMBDA pos :
          [n \in DOMAIN pos[1] |-> [t \in DOMAIN pos |->
             Softmax([h \in DOMAIN pos[t][n] |->
                        [w \in DOMAIN pos[t][n][h] |-> pos[t][n][h][w][1]]])]],
        Hid2(hidden))

\* occlusion = sqrt(mean(square(hid3(...)), axis=(-2, -3)) + 1e-8), then the
\* linear layer occ_out, transposed to [n][t].  The square root and the
\* linear layer are fixed maps applied to one query and frame at a time; the
\* model keeps their argument: the channel-wise sums of squares and the
\* number of cells averaged over.
OcclusionLogits(hidden) ==
  Force(LAMBDA occ :
          [n \in DOMAIN occ[1] |-> [t \in DOMAIN occ |->
             LET cells == {<<h, w>> : h \in DOMAIN occ[t][n],
                                      w \in DOMAIN occ[t][n][0]}
             IN [sumsq |-> [o \in 1..Hid3Channels |->
                              SumFn([p \in cells |->
                                       Square(occ[t][n][p[1]][p[2]][o])],
                                    cells)],
                 cells |-> Cardinality(cells)]]],
        Hid3(hidden))

TracksFromHidden(hidden, qp, im_shp) ==
  Force(LAMBDA pts :
          IF pts.error # "" THEN [error |-> pts.error]
          ELSE [error |-> "", points |-> pts.points,
                occlusion |-> OcclusionLogits(hidden)],
        heatmaps_to_points(TrackHeatmaps(hidden), im_shp, DefaultThreshold,
                           [none |-> FALSE, pts |-> qp]))

tracks_from_cost_volume(interp_feature_heads, feature_grid_heads, qp, im_shp) ==
  Force(LAMBDA hidden : TracksFromHidden(hidden, qp, im_shp),
        Relu(Hid1(CostVolume(interp_feature_heads, feature_grid_heads))))

\* ------------------------------------------------------- TAPNet.__call__
\* query_chunk_size=None
NoChunkSize == 0

FrameRange == 1..NumFrames
RowRange == 0..(MaxH - 1)
ColRange == 0..(MaxW - 1)
NumChannels == NumHeads * ChanPerHead

\* self.tsm_resnet(video, ...): the backbone is a function of the video.
\* Every cell of the latent explored has one non-zero channel, of amplitude
\* -1..2, so that its L2 norm is an integer.
Latent(v) ==
  [t \in FrameRange |-> [h \in RowRange |-> [w \in ColRange |->
     [k \in 1..NumChannels |->
        IF k = ((v + t + h + w) % NumChannels) + 1
          THEN ((v + 2 * t + h + 3 * w) % 4) - 1
          ELSE 0]]]]

\* the integer square root of a perfect square
ISqrt(n) == CHOOSE r \in 0..n : r * r = n

\* latent / sqrt(maximum(sum(square(latent), axis=-1), 1e-12)) on one cell:
\* a zero vector stays zero (0 / 1e-6)
NormalizeCell(vec) ==
  LET ss == SumFn([k \in DOMAIN vec |-> Square(vec[k])], DOMAIN vec)
  IN IF ss = 0 THEN vec
     ELSE [k \in DOMAIN vec |-> vec[k] \div ISqrt(ss)]

NormalizeGrid(latent) ==
  [t \in DOMAIN latent |-> [h \in DOMAIN latent[t] |->
     [w \in DOMAIN latent[t][h] |-> NormalizeCell(latent[t][h][w])]]]

\* the feature grid the rest of the call reads when one is passed in
GridFromArgumentNormalized(fg) == NormalizeGrid(fg.grid)
GridFromArgument(fg) == fg.grid

\* position_in_grid = convert_grid_coordinates(query_points, shape[1:4],
\* feature_grid.shape[1:4], 'tyx'); the queries explored fall on whole
\* frames and whole grid cells, so the divisions are exact
PositionInGrid(q, shape, grid_shape) ==
  <<(q[1] * grid_shape.t) \div (FrameDen * shape.t),
    (q[2] * grid_shape.h) \div shape.h,
    (q[3] * grid_shape.w) \div shape.w>>

Clamp(v, lo, hi) == IF v < lo THEN lo ELSE IF v > hi THEN hi ELSE v

\* interp: map_coordinates(x, coordinates, order=1, mode='nearest') per
\* channel.  At whole coordinates linear interpolation has weight 1 on one
\* cell; outside the grid 'nearest' takes the nearest border cell.
Interp(grid, pos) ==
  [k \in 1..NumChannels |->
     grid[Clamp(pos[1], 0, Len(grid) - 1) + 1]
         [Clamp(pos[2], 0, Cardinality(DOMAIN grid[1]) - 1)]
         [Clamp(pos[3], 0, Cardinality(DOMAIN grid[1][0]) - 1)][k]]

InterpFeatures(grid, positions) ==
  [n \in DOMAIN positions |-> Interp(grid, positions[n])]

\* einshape('bthw(cd)->bthwcd', feature_grid, d=num_heads)
FeatureGridHeads(grid) ==
  [t \in DOMAIN grid |-> [h \in DOMAIN grid[t] |-> [w \in DOMAIN grid[t][h] |->
     [c \in 1..ChanPerHead |-> [d \in 1..NumHeads |->
        grid[t][h][w][(c - 1) * NumHeads + d]]]]]]

\* einshape('bn(cd)->bncd', interp_features, d=num_heads)
InterpFeaturesHeads(feats) ==
  [n \in DOMAIN feats |-> [c \in 1..ChanPerHead |-> [d \in 1..NumHeads |->
     feats[n][(c - 1) * NumHeads + d]]]]

MinOf(a, b) == IF a < b THEN a ELSE b

\* s[:, i:i + query_chunk_size]
ChunkSlice(seq, i, c) == SubSeq(seq, i + 1, MinOf(i + c, Len(seq)))

\* all_pts.append(points)
AppendChunkFirst(all, part) == <<part>> \o all
AppendChunk(all, part) == Append(all, part)

\* jnp.concatenate(parts, axis=1)
RECURSIVE Concatenate(_)
Concatenate(parts) ==
  IF parts = <<>> THEN <<>> ELSE Head(parts) \o Concatenate(Tail(parts))

\* if compute_regression:
ComputeRegressionAlways(flag) == TRUE
ComputeRegression(flag) == flag

\* assert query_chunk_size is not None
ChunkSizeCheckedNever(size) == TRUE
ChunkSizeChecked(size) == size # NoChunkSize

\* ------------------------------------------------------------------ state
VARIABLES
  softmax_val,      \* soft_argmax_heatmap: the heatmap argument
  threshold,        \* soft_argmax_heatmap, heatmaps_to_points: the radius
  sa,               \* soft_argmax_heatmap: its locals and result, once run
  all_pairs_softmax,  \* heatmaps_to_points: heatmaps [point][frame]
  image_shape,      \* heatmaps_to_points: [t, h, w] of the original video
  query_points,     \* the query points <<t, y, x>>, or None
  hp,               \* heatmaps_to_points: its locals and result, once run
  video,            \* __call__: the video (its content, as an index)
  fg_arg,           \* __call__: the feature_grid argument, or None
  compute_regression,   \* __call__ argument
  query_chunk_size,     \* __call__ argument, NoChunkSize for None
  get_query_feats,      \* __call__ argument
  pc,               \* __call__: where the call stands
  feature_grid,     \* __call__ local
  position_in_grid, \* __call__ local
  interp_features,  \* __call__ local
  out,              \* __call__: the dict returned
  loop_i,           \* __call__: the chunk loop's index i
  all_occ,          \* __call__ local
  all_pts,          \* __call__ local
  all_src,          \* for each row appended to all_pts, the query it is of
  calls,            \* invocations so far: backbone, convert, interp, correlator
  chunk_log         \* one entry per correlator invocation

vars == <<softmax_val, threshold, sa, all_pairs_softmax, image_shape,
          query_points, hp, video, fg_arg, compute_regression,
          query_chunk_size, get_query_feats, pc, feature_grid,
          position_in_grid, interp_features, out, loop_i, all_occ, all_pts,
          all_src, calls, chunk_log>>

varsCallArgs == <<video, fg_arg, compute_regression, query_chunk_size,
                  get_query_feats>>
varsCallLocals == <<pc, feature_grid, position_in_grid, interp_features, out,
                    loop_i, all_occ, all_pts, all_src, calls, chunk_log>>
varsCall == <<varsCallArgs, varsCallLocals>>

varsArgmax == <<softmax_val, sa>>
varsPoints == <<all_pairs_softmax, image_shape, query_points, hp>>
Idle == "idle"
IdleCall ==
  /\ video = Idle /\ fg_arg = Idle /\ compute_regression = Idle
  /\ query_chunk_size = Idle /\ get_query_feats = Idle /\ pc = Idle
  /\ feature_grid = Idle /\ position_in_grid = Idle
  /\ interp_features = Idle /\ out = Idle /\ loop_i = Idle /\ all_occ = Idle
  /\ all_pts = Idle /\ all_src = Idle /\ calls = Idle /\ chunk_log = Idle

\* ------------------------------------------------- soft_argmax_heatmap run
CellValues == {PZero, PTiny, POne}

Grid(h, w, S) == [0..(h - 1) -> [0..(w - 1) -> S]]

Heatmaps ==
  UNION {{[val |-> v, scale |-> 1] : v \in Grid(h, w, CellValues)} :
           <<h, w>> \in (1..MaxH) \X (1..MaxW)}

NotRun == [pc |-> "start"]

InitArgmax ==
  /\ softmax_val \in Heatmaps
  /\ threshold \in 0..MaxThreshold
  /\ sa = NotRun
  /\ all_pairs_softmax = Idle /\ image_shape = Idle
  /\ query_points = Idle /\ hp = Idle
  /\ IdleCall

SoftArgmax ==
  /\ sa.pc = "start"
  /\ sa' = [pc |-> "done",
            argmax_pos |-> ArgmaxPos(softmax_val),
            valid |-> ValidMask(softmax_val, threshold),
            weighted_sum |-> WeightedSum(softmax_val,
                                         ValidMask(softmax_val, threshold)),
            sum_of_weights |-> SumOfWeights(softmax_val,
                                            ValidMask(softmax_val, threshold)),
            out |-> soft_argmax_heatmap(softmax_val, threshold)]
  /\ UNCHANGED <<softmax_val, threshold, varsPoints, varsCall>>

NextArgmax == SoftArgmax

SpecArgmax == InitArgmax /\ [][NextArgmax]_vars

\* ------------------------------------------------ soft_argmax_heatmap claims
OneHot(h, w, r, c) ==
  [val |-> [i \in 0..(h - 1) |-> [j \in 0..(w - 1) |->
              IF i = r /\ j = c THEN POne ELSE PZero]],
   scale |-> 1]

AllZero(hm) ==
  \A i \in 0..(Height(hm) * Width(hm) - 1) : FlatVal(hm, i) = PZero

\* the sum of the heatmap over a set of flat cell indices
RECURSIVE SumVals(_, _)
SumVals(hm, S) ==
  IF S = {} THEN PZero
  ELSE LET i == CHOOSE j \in S : TRUE
       IN PAdd(FlatVal(hm, i), SumVals(hm, S \ {i}))

RECURSIVE SumCoordVals(_, _, _)
SumCoordVals(hm, S, k) ==
  IF S = {} THEN PZero
  ELSE LET i == CHOOSE j \in S : TRUE
       IN PAdd(PScale(IF k = 1 THEN i % Width(hm) ELSE i \div Width(hm),
                      FlatVal(hm, i)),
               SumCoordVals(hm, S \ {i}, k))

SaCells == 0..(Height(softmax_val) * Width(softmax_val) - 1)
SaColOf(i) == i % Width(softmax_val)
SaRowOf(i) == i \div Width(softmax_val)
SaSqDistToArgmax(i) ==
  Square(SaColOf(i) - SaColOf(sa.argmax_pos))
    + Square(SaRowOf(i) - SaRowOf(sa.argmax_pos))
SaWindow == {i \in SaCells : sa.valid[i]}

\* C6: a heatmap that is 1 at row r, column c and 0 elsewhere decodes, for
\* every radius >= 1, to exactly the point (x, y) = (c, r).
C6_SoftArgmaxLocality ==
  (sa.pc = "done" /\ threshold >= 1) =>
    \A r \in 0..(Height(softmax_val) - 1), c \in 0..(Width(softmax_val) - 1) :
      softmax_val = OneHot(Height(softmax_val), Width(softmax_val), r, c) =>
        /\ sa.out[1][2] # PZero /\ sa.out[2][2] # PZero
        /\ FEqInt(sa.out[1], c)
        /\ FEqInt(sa.out[2], r)

C6_Witness ==
  /\ sa.pc = "done"
  /\ threshold = 1
  /\ softmax_val = OneHot(2, 2, 1, 0)
  /\ FEqInt(sa.out[1], 0) /\ FEqInt(sa.out[2], 1)

\* C7 as stated: a cell is in the window iff its squared distance to the
\* argmax cell is at most threshold squared.
C7_WindowInclusive ==
  sa.pc = "done" =>
    \A i \in SaCells : sa.valid[i] <=> (SaSqDistToArgmax(i) <= Square(threshold))

\* C7 amended: a cell takes part in the weighted average iff its squared
\* distance to the argmax cell is strictly less than threshold squared; the
\* numerator and the unfloored denominator are sums over exactly these cells.
C7_WindowStrict ==
  sa.pc = "done" =>
    /\ \A i \in SaCells : sa.valid[i] <=> (SaSqDistToArgmax(i) < Square(threshold))
    /\ LET W == {i \in SaCells : SaSqDistToArgmax(i) < Square(threshold)}
       IN /\ sa.weighted_sum = <<SumCoordVals(softmax_val, W, 1),
                                 SumCoordVals(softmax_val, W, 2)>>
          /\ sa.sum_of_weights = PMaximum(SumVals(softmax_val, W), Eps)

\* a cell at distance exactly threshold from the argmax cell carries weight
\* and is left out
C7_Witness ==
  /\ sa.pc = "done"
  /\ threshold = 1
  /\ \E i \in SaCells : /\ SaSqDistToArgmax(i) = 1
                        /\ FlatVal(softmax_val, i) = POne
                        /\ ~sa.valid[i]
  /\ FlatVal(softmax_val, sa.argmax_pos) = POne

\* C8: the denominator is never zero; it is 1e-12 when the weights inside
\* the window sum to less than 1e-12 and exactly their sum otherwise; an
\* all-zero heatmap decodes to the point (0, 0).
C8_EpsilonFloor ==
  sa.pc = "done" =>
    LET s == SumVals(softmax_val, SaWindow)
    IN /\ PLess(PZero, sa.sum_of_weights)
       /\ sa.out[1][2] = sa.sum_of_weights /\ sa.out[2][2] = sa.sum_of_weights
       /\ PLess(s, Eps) => sa.sum_of_weights = Eps
       /\ ~PLess(s, Eps) => sa.sum_of_weights = s
       /\ AllZero(softmax_val) => FEqInt(sa.out[1], 0) /\ FEqInt(sa.out[2], 0)

\* a window whose weights sum to a positive amount below the floor
C8_Witness ==
  /\ sa.pc = "done"
  /\ PLess(PZero, SumVals(softmax_val, SaWindow))
  /\ PLess(SumVals(softmax_val, SaWindow), Eps)
  /\ sa.sum_of_weights = Eps

\* ------------------------------------------------- heatmaps_to_points run
\* The heatmaps explored: a spike at each cell, the all-zero map, the
\* uniform map and a spike below the floor.
NumSamples == MaxH * MaxW + 3
HeatSample(k) ==
  IF k < MaxH * MaxW THEN OneHot(MaxH, MaxW, k \div MaxW, k % MaxW)
  ELSE [val |-> [i \in 0..(MaxH - 1) |-> [j \in 0..(MaxW - 1) |->
                   IF k = MaxH * MaxW THEN PZero
                   ELSE IF k = MaxH * MaxW + 1 THEN POne
                   ELSE IF i = 0 /\ j = 0 THEN PTiny ELSE PZero]],
        scale |-> 1]

SampleHeatmaps(n, seed) ==
  [i \in 1..n |-> [j \in 1..NumFrames |->
     HeatSample((seed + NumFrames * (i - 1) + (j - 1)) % NumSamples)]]

\* The query points explored: frames -1/FrameDen .. NumFrames in steps of
\* 1/FrameDen, at two image positions <<y, x>>.
QueryYX == <<<<3, 10>>, <<12, 5>>>>
NumQueryFrames == NumFrames * FrameDen + 2
NumQueryPoints == NumQueryFrames * Len(QueryYX)
QueryPointAt(k) ==
  <<(k % NumQueryFrames) - 1,
    QueryYX[(k \div NumQueryFrames) + 1][1],
    QueryYX[(k \div NumQueryFrames) + 1][2]>>
\* n query points: the first is any of them, the next ones follow at a
\* fixed step
NumQuerySteps == 2 * NumFrames + 2
QueryPointSets(n) ==
  {[i \in 1..n |-> QueryPointAt((a + b * (i - 1)) % NumQueryPoints)] :
     a \in 0..(NumQueryPoints - 1), b \in 0..(NumQuerySteps - 1)}

NoQueryPoints == [none |-> TRUE, pts |-> <<>>]

InitPoints ==
  /\ \E n \in 1..MaxPoints :
       /\ \E seed \in 0..(NumSamples - 1) :
            all_pairs_softmax = SampleHeatmaps(n, seed)
       /\ query_points \in
            {[none |-> FALSE, pts |-> q] : q \in QueryPointSets(n)}
              \cup {NoQueryPoints}
  /\ \E t \in {NumFrames, NumFrames + 1} :
       image_shape = [t |-> t, h |-> MaxH * FeatureGridStride,
                      w |-> MaxW * FeatureGridStride]
  /\ threshold \in {MaxThreshold, DefaultThreshold}
  /\ hp = NotRun
  /\ softmax_val = Idle /\ sa = Idle
  /\ IdleCall

HeatmapsToPoints ==
  /\ hp.pc = "start"
  /\ \E res \in {heatmaps_to_points(all_pairs_softmax, image_shape,
                                      threshold, query_points)} :
       hp' = IF res.error # ""
                THEN [pc |-> res.error]
                ELSE [pc |-> "done",
                      soft |-> [n \in 1..Len(all_pairs_softmax) |->
                                 [j \in 1..NumFrames |->
                                    RescaledPoint(all_pairs_softmax[n][j],
                                                  threshold, image_shape)]],
                      is_query_point |->
                        IF query_points.none THEN <<>>
                        ELSE [n \in 1..Len(all_pairs_softmax) |->
                               [j \in 1..NumFrames |->
                                  IsQueryPoint(query_points.pts[n],
                                               image_shape.t, NumFrames,
                                               j - 1)]],
                      out_points |-> res.points]
  /\ UNCHANGED <<all_pairs_softmax, image_shape, query_points, threshold,
                 varsArgmax, varsCall>>

NextPoints == HeatmapsToPoints

SpecPoints == InitPoints /\ [][NextPoints]_vars

\* ------------------------------------------------------ TAPNet.__call__ run
\* at most this many queries; chunk sizes 1..MaxQueries and None
MaxQueries == 3
\* videos, and feature grids passed in, that are explored
NumVideos == 2

\* The queries explored lie on whole frames 0..NumFrames and on the grid
\* cells (row, column) in 0..MaxH-1 x 0..MaxW: frame NumFrames and column
\* MaxW are outside the video.
NumCallQueries == (NumFrames + 1) * (MaxW + 1) * MaxH
CallQuery(k) ==
  <<FrameDen * (k % (NumFrames + 1)),
    FeatureGridStride * ((k \div ((NumFrames + 1) * (MaxW + 1))) % MaxH),
    FeatureGridStride * ((k \div (NumFrames + 1)) % (MaxW + 1))>>
\* the first query of a call is one of the first NumSeeds queries
NumSeeds == MaxQueries
CallQueries(n, seed) ==
  [k \in 1..n |-> CallQuery((seed + 5 * (k - 1)) % NumCallQueries)]

NoGrid == [none |-> TRUE, grid |-> <<>>]
NumQueries == Len(query_points.pts)

InitCall ==
  /\ \/ /\ video \in 0..(NumVideos - 1)
        /\ fg_arg = NoGrid
     \/ /\ video = 0
        /\ fg_arg \in {[none |-> FALSE, grid |-> Latent(v + 1)] :
                         v \in 0..(NumVideos - 1)}
  /\ query_points \in
       {[none |-> FALSE, pts |-> CallQueries(n, seed)] :
          n \in 0..MaxQueries, seed \in 0..(NumSeeds - 1)}
  /\ compute_regression \in BOOLEAN
  /\ query_chunk_size \in {NoChunkSize} \cup 1..MaxQueries
  /\ get_query_feats \in BOOLEAN
  /\ image_shape = [t |-> NumFrames, h |-> MaxH * FeatureGridStride,
                    w |-> MaxW * FeatureGridStride]
  /\ pc = "start"
  /\ feature_grid = <<>> /\ position_in_grid = <<>> /\ interp_features = <<>>
  /\ out = <<>> /\ loop_i = 0
  /\ all_occ = <<>> /\ all_pts = <<>> /\ all_src = <<>>
  /\ calls = [backbone |-> 0, convert |-> 0, interp |-> 0, correlator |-> 0]
  /\ chunk_log = <<>>
  /\ softmax_val = Idle /\ threshold = Idle /\ sa = Idle
  /\ all_pairs_softmax = Idle /\ hp = Idle

varsCallInputs == <<varsCallArgs, query_points, image_shape, varsArgmax,
                    threshold, all_pairs_softmax, hp>>

\* lines 318-331: feature_grid is None, so the backbone runs and its output
\* is normalised
Backbone ==
  /\ pc = "start" /\ fg_arg.none
  /\ feature_grid' = NormalizeGrid(Latent(video))
  /\ calls' = [calls EXCEPT !.backbone = @ + 1]
  /\ pc' = "convert"
  /\ UNCHANGED <<varsCallInputs, position_in_grid, interp_features, out,
                 loop_i, all_occ, all_pts, all_src, chunk_log>>

\* line 318: a feature grid was passed in
UseFeatureGrid ==
  /\ pc = "start" /\ ~fg_arg.none
  /\ feature_grid' = GridFromArgument(fg_arg)
  /\ pc' = "convert"
  /\ UNCHANGED <<varsCallInputs, position_in_grid, interp_features, out,
                 loop_i, all_occ, all_pts, all_src, calls, chunk_log>>

\* lines 333-344
ConvertQueryPoints ==
  /\ pc = "convert"
  /\ position_in_grid' =
       [n \in 1..NumQueries |->
          PositionInGrid(query_points.pts[n], image_shape,
                         [t |-> Len(feature_grid),
                          h |-> Cardinality(DOMAIN feature_grid[1]),
                          w |-> Cardinality(DOMAIN feature_grid[1][0])])]
  /\ calls' = [calls EXCEPT !.convert = @ + 1]
  /\ pc' = "interp"
  /\ UNCHANGED <<varsCallInputs, feature_grid, interp_features, out, loop_i,
                 all_occ, all_pts, all_src, chunk_log>>

\* lines 345-360
SampleFeatures ==
  /\ pc = "interp"
  /\ interp_features' = InterpFeatures(feature_grid, position_in_grid)
  /\ calls' = [calls EXCEPT !.interp = @ + 1]
  /\ out' = IF get_query_feats
              THEN ("feature_grid" :> feature_grid)
                     @@ ("query_feats" :> InterpFeatures(feature_grid,
                                                         position_in_grid))
              ELSE ("feature_grid" :> feature_grid)
  /\ pc' = "branch"
  /\ UNCHANGED <<varsCallInputs, feature_grid, position_in_grid, loop_i,
                 all_occ, all_pts, all_src, chunk_log>>

\* lines 362, 386: compute_regression is off
ReturnFeatures ==
  /\ pc = "branch" /\ ~ComputeRegression(compute_regression)
  /\ pc' = "done"
  /\ UNCHANGED <<varsCallInputs, feature_grid, position_in_grid,
                 interp_features, out, loop_i, all_occ, all_pts, all_src,
                 calls, chunk_log>>

\* line 363: the assertion fails
AssertChunkSize ==
  /\ pc = "branch" /\ ComputeRegression(compute_regression)
  /\ ~ChunkSizeChecked(query_chunk_size)
  /\ pc' = "AssertionError"
  /\ UNCHANGED <<varsCallInputs, feature_grid, position_in_grid,
                 interp_features, out, loop_i, all_occ, all_pts, all_src,
                 calls, chunk_log>>

\* lines 364-372: the loop starts; range(0, n, None) is a TypeError
StartChunks ==
  /\ pc = "branch" /\ ComputeRegression(compute_regression)
  /\ ChunkSizeChecked(query_chunk_size)
  /\ all_occ' = <<>> /\ all_pts' = <<>> /\ loop_i' = 0
  /\ pc' = IF query_chunk_size = NoChunkSize THEN "TypeError" ELSE "loop"
  /\ UNCHANGED <<varsCallInputs, feature_grid, position_in_grid,
                 interp_features, out, all_src, calls, chunk_log>>

\* lines 372-379: one pass of the loop
Chunk ==
  /\ pc = "loop" /\ loop_i < NumQueries
  /\ \E res \in {tracks_from_cost_volume(
                     ChunkSlice(InterpFeaturesHeads(interp_features), loop_i,
                                query_chunk_size),
                     FeatureGridHeads(feature_grid),
                     ChunkSlice(query_points.pts, loop_i, query_chunk_size),
                     image_shape)} :
       IF res.error # ""
          THEN pc' = res.error /\ UNCHANGED <<all_occ, all_pts, all_src>>
          ELSE /\ all_occ' = AppendChunk(all_occ, res.occlusion)
               /\ all_pts' = AppendChunk(all_pts, res.points)
               /\ all_src' = AppendChunk(all_src,
                               ChunkSlice([k \in 1..NumQueries |-> k], loop_i,
                                          query_chunk_size))
               /\ pc' = "loop"
  /\ loop_i' = loop_i + query_chunk_size
  /\ calls' = [calls EXCEPT !.correlator = @ + 1]
  /\ chunk_log' = Append(chunk_log,
                    [lo |-> loop_i,
                     len |-> Len(ChunkSlice(query_points.pts, loop_i,
                                            query_chunk_size)),
                     grid |-> feature_grid])
  /\ UNCHANGED <<varsCallInputs, feature_grid, position_in_grid,
                 interp_features, out>>

\* lines 380-386: jnp.concatenate of an empty list is a ValueError
ConcatenateChunks ==
  /\ pc = "loop" /\ loop_i >= NumQueries
  /\ IF all_pts = <<>>
       THEN pc' = "ValueError" /\ UNCHANGED out
       ELSE /\ out' = out @@ ("occlusion" :> Concatenate(all_occ))
                          @@ ("tracks" :> Concatenate(all_pts))
            /\ pc' = "done"
  /\ UNCHANGED <<varsCallInputs, feature_grid, position_in_grid,
                 interp_features, loop_i, all_occ, all_pts, all_src, calls,
                 chunk_log>>

NextCall ==
  \/ Backbone \/ UseFeatureGrid \/ ConvertQueryPoints \/ SampleFeatures
  \/ ReturnFeatures \/ AssertChunkSize \/ StartChunks \/ Chunk
  \/ ConcatenateChunks

SpecCall == InitCall /\ [][NextCall]_vars

\* ------------------------------------------------ heatmaps_to_points claims
HpPoints == 1..Len(all_pairs_softmax)
HpFrames == 0..(NumFrames - 1)

\* the integer nearest to t / FrameDen, the even one of two equally near
NearestFrame(t) ==
  CHOOSE k \in (-2)..(NumFrames + 2) :
    LET d == IF FrameDen * k >= t THEN FrameDen * k - t ELSE t - FrameDen * k
    IN 2 * d < FrameDen \/ (2 * d = FrameDen /\ k % 2 = 0)

\* C1: a query <<t, y, x>> whose frame t is one of the video's frames gets,
\* at that frame, exactly its own coordinates in (x, y) order, whatever the
\* heatmap of that query and frame holds.
C1_QueryPin ==
  (hp.pc = "done" /\ ~query_points.none) =>
    \A n \in HpPoints, f \in HpFrames :
      query_points.pts[n][1] = FrameDen * f =>
        LET p == hp.out_points[n][f + 1]
        IN /\ p[1][2] # PZero /\ p[2][2] # PZero
           /\ FEqInt(p[1], query_points.pts[n][3])
           /\ FEqInt(p[2], query_points.pts[n][2])

\* a query declared on frame 1 whose heatmap there decodes to another point
C1_Witness ==
  /\ hp.pc = "done" /\ ~query_points.none
  /\ \E n \in HpPoints :
       /\ query_points.pts[n][1] = FrameDen
       /\ hp.soft[n][2] # hp.out_points[n][2]
       /\ FEqInt(hp.out_points[n][2][1], query_points.pts[n][3])
       /\ FEqInt(hp.out_points[n][2][2], query_points.pts[n][2])

\* C10: every frame other than the query's frame rounded to the nearest
\* integer keeps its rescaled soft-argmax point; a query pins at most one
\* frame, none when its rounded frame is outside the video, and without
\* query points no frame is altered.
C10_OverrideOnlyQueryFrame ==
  hp.pc = "done" =>
    IF query_points.none
      THEN hp.out_points = hp.soft
      ELSE \A n \in HpPoints :
             LET f == NearestFrame(query_points.pts[n][1])
                 pinned == {j \in HpFrames : hp.is_query_point[n][j + 1] = 1}
             IN /\ \A j \in HpFrames \ {f} :
                     /\ hp.is_query_point[n][j + 1] = 0
                     /\ hp.out_points[n][j + 1] = hp.soft[n][j + 1]
                /\ Cardinality(pinned) <= 1
                /\ f \notin HpFrames => pinned = {}

\* a query at frame 1.5, which rounds to 2 and so pins no frame of a
\* two-frame video, beside a query pinned on frame 0 only
C10_Witness ==
  /\ hp.pc = "done" /\ ~query_points.none
  /\ \E n \in HpPoints :
       /\ 2 * query_points.pts[n][1] = (2 * NumFrames - 1) * FrameDen
       /\ \A j \in HpFrames : hp.is_query_point[n][j + 1] = 0
       /\ hp.out_points[n] = hp.soft[n]
  /\ \E n \in HpPoints :
       /\ hp.is_query_point[n][1] = 1
       /\ hp.out_points[n][1] # hp.soft[n][1]
       /\ hp.out_points[n][2] = hp.soft[n][2]

\* ---------------------------------------------------- TAPNet.__call__ claims
Regressed == pc = "done" /\ compute_regression

\* one pass of the correlator over the queries lo+1 .. lo+len of this call
PassOver(lo, len) ==
  tracks_from_cost_volume(
    ChunkSlice(InterpFeaturesHeads(interp_features), lo, len),
    FeatureGridHeads(feature_grid),
    ChunkSlice(query_points.pts, lo, len),
    image_shape)

\* C2: whatever the chunk size, the returned tracks and occlusion are those
\* of one pass over all the queries at once, and each query's entry is that
\* of a pass over this query alone.
C2_ChunkingEquivalence ==
  Regressed =>
    /\ \E whole \in {PassOver(0, NumQueries)} :
         /\ whole.error = ""
         /\ out["tracks"] = whole.points
         /\ out["occlusion"] = whole.occlusion
    /\ \A n \in 1..NumQueries :
         \E alone \in {PassOver(n - 1, 1)} :
           /\ out["tracks"][n] = alone.points[1]
           /\ out["occlusion"][n] = alone.occlusion[1]

\* three queries with pairwise different results, in chunks of two
C2_Witness ==
  /\ Regressed
  /\ NumQueries = 3 /\ query_chunk_size = 2
  /\ Len(chunk_log) = 2
  /\ \A m, n \in 1..3 :
       m # n => /\ out["tracks"][m] # out["tracks"][n]
                /\ out["occlusion"][m] # out["occlusion"][n]

\* C3: with compute_regression off the call returns, the record holds
\* "feature_grid", "query_feats" exactly when get_query_feats is set, and
\* nothing else, and the correlator is never invoked.
C3_FeatureOnly ==
  ~compute_regression =>
    /\ calls.correlator = 0
    /\ chunk_log = <<>>
    /\ pc \in {"start", "convert", "interp", "branch", "done"}
    /\ pc = "done" =>
         /\ DOMAIN out = {"feature_grid"} \cup
                           (IF get_query_feats THEN {"query_feats"} ELSE {})
         /\ out["feature_grid"] = feature_grid
         /\ get_query_feats => out["query_feats"] = interp_features

\* a feature-only call with three queries and no chunk size that returned
\* the query features
C3_Witness ==
  /\ ~compute_regression /\ pc = "done"
  /\ NumQueries = MaxQueries /\ query_chunk_size = NoChunkSize
  /\ get_query_feats /\ "query_feats" \in DOMAIN out
  /\ calls.interp = 1 /\ calls.correlator = 0

MissingChunkSize == compute_regression /\ query_chunk_size = NoChunkSize

\* C4 as stated: with compute_regression on and no chunk size nothing is
\* computed: no backbone, no coordinate conversion, no sampling, no
\* correlator.
C4_FailsBeforeAnyComputation ==
  MissingChunkSize =>
    calls = [backbone |-> 0, convert |-> 0, interp |-> 0, correlator |-> 0]

\* C4 amended: with compute_regression on and no chunk size the call ends in
\* an AssertionError and in nothing else, before the chunk loop: no
\* correlator invocation, no tracks, no occlusion.  When it fails the
\* coordinates were converted and the features sampled once each, and the
\* backbone was invoked once unless a feature grid was passed in.
C4_FailsBeforeCorrelator ==
  MissingChunkSize =>
    /\ pc \in {"start", "convert", "interp", "branch", "AssertionError"}
    /\ calls.correlator = 0 /\ chunk_log = <<>>
    /\ "tracks" \notin DOMAIN out /\ "occlusion" \notin DOMAIN out
    /\ pc = "AssertionError" =>
         /\ calls.backbone = (IF fg_arg.none THEN 1 ELSE 0)
         /\ calls.convert = 1
         /\ calls.interp = 1

\* the assertion failed after the backbone ran
C4_Witness ==
  /\ MissingChunkSize /\ pc = "AssertionError"
  /\ fg_arg.none /\ calls.backbone = 1
  /\ NumQueries >= 1

\* C5: the k-th correlator invocation gets the queries from (k-1)c up to
\* kc or to the last query, at least one and at most c of them and fewer
\* than c only in the last invocation; together the invocations cover every
\* query once and in order, and the N entries of tracks and occlusion are
\* in query order.
C5_ChunkPartition ==
  (compute_regression /\ pc \in {"loop", "done"}) =>
    /\ \A k \in 1..Len(chunk_log) :
         /\ chunk_log[k].lo = (k - 1) * query_chunk_size
         /\ chunk_log[k].lo < NumQueries
         /\ chunk_log[k].len =
              MinOf(query_chunk_size, NumQueries - chunk_log[k].lo)
         /\ chunk_log[k].len >= 1 /\ chunk_log[k].len <= query_chunk_size
         /\ chunk_log[k].len < query_chunk_size => k = Len(chunk_log)
    /\ loop_i = Len(chunk_log) * query_chunk_size
    /\ calls.correlator = Len(chunk_log)
    /\ Concatenate(all_src) = [k \in 1..MinOf(loop_i, NumQueries) |-> k]
    /\ pc = "done" =>
         /\ Len(chunk_log) = CeilDiv(NumQueries, query_chunk_size)
         /\ Concatenate(all_src) = [k \in 1..NumQueries |-> k]
         /\ DOMAIN out["tracks"] = 1..NumQueries
         /\ DOMAIN out["occlusion"] = 1..NumQueries
         /\ \A n \in 1..NumQueries :
              LET k == CHOOSE j \in 1..Len(all_src) :
                         \E m \in 1..Len(all_src[j]) : all_src[j][m] = n
                  m == CHOOSE j \in 1..Len(all_src[k]) : all_src[k][j] = n
              IN /\ out["tracks"][n] = all_pts[k][m]
                 /\ out["occlusion"][n] = all_occ[k][m]

\* three queries in chunks of two: a full chunk, then a chunk of one
C5_Witness ==
  /\ Regressed
  /\ NumQueries = 3 /\ query_chunk_size = 2
  /\ all_src = <<<<1, 2>>, <<3>>>>
  /\ Len(out["tracks"]) = 3
  /\ out["tracks"][1] # out["tracks"][3]

\* C9: the backbone is invoked once when no feature grid is passed in and
\* never when one is; a grid passed in is the grid the call works on and
\* returns, as it came; every correlator invocation reads that one grid.
C9_FeatureGridLifecycle ==
  /\ calls.backbone = (IF fg_arg.none /\ pc # "start" THEN 1 ELSE 0)
  /\ (~fg_arg.none /\ pc # "start") => feature_grid = fg_arg.grid
  /\ "feature_grid" \in DOMAIN out =>
       /\ out["feature_grid"] = feature_grid
       /\ ~fg_arg.none => out["feature_grid"] = fg_arg.grid
  /\ \A k \in 1..Len(chunk_log) : chunk_log[k].grid = feature_grid

\* a grid that is not normalised was passed in and read by three chunks
C9_Witness ==
  /\ Regressed /\ ~fg_arg.none
  /\ fg_arg.grid # NormalizeGrid(fg_arg.grid)
  /\ out["feature_grid"] = fg_arg.grid
  /\ Len(chunk_log) = 3 /\ calls.backbone = 0

\* no feature grid passed in, three chunks, one backbone invocation
C9_WitnessBackbone ==
  /\ Regressed /\ fg_arg.none
  /\ Len(chunk_log) = 3 /\ calls.backbone = 1

====
